---------------------------- MODULE Spec2Model ----------------------------
(***************************************************************************)
(* GitHub Actions Version Updater (src/src/main.py, src/src/config.py).   *)
(*                                                                         *)
(* Strings are sequences of one-character strings, so that parsing,       *)
(* splitting and regular-expression matching are computed, not assumed.    *)
(***************************************************************************)
EXTENDS Integers, Sequences, FiniteSets, TLC

(***************************************************************************)
(* Bounds of the model.                                                    *)
(***************************************************************************)
MaxReleases == 3    \* longest release list a lookup answers with (pure resolver inputs)
MaxDepth == 3       \* deepest nesting of a parsed configuration tree (scanner inputs)
MaxRuns == 2        \* how many times the updater is run over the same files

(***************************************************************************)
(* Characters and strings.                                                 *)
(***************************************************************************)
Digits == <<"0", "1", "2", "3", "4", "5", "6", "7", "8", "9">>

IsDigit(c) == \E i \in 1..10 : Digits[i] = c

DigitVal(c) == (CHOOSE i \in 1..10 : Digits[i] = c) - 1

\* str.isspace of the characters used: \s of the regular expression
IsSpace(c) == c \in {" ", "\n", "\t"}

IsQuote(c) == c \in {"'", "\""}

Missing == <<"<missing>">>   \* a key absent from a dict / a JSON body; also None

SubStr(s, i, j) == IF j < i THEN <<>> ELSE SubSeq(s, i, j)

\* positions of character c in s
Positions(s, c) == {i \in 1..Len(s) : s[i] = c}

\* str.split(sep) for a one-character separator
RECURSIVE Split(_, _)
Split(s, sep) ==
  IF Positions(s, sep) = {} THEN <<s>>
  ELSE LET i == CHOOSE k \in Positions(s, sep) : \A j \in Positions(s, sep) : k <= j
       IN <<SubStr(s, 1, i - 1)>> \o Split(SubStr(s, i + 1, Len(s)), sep)

\* sep.join(parts)
RECURSIVE Join(_, _)
Join(parts, sep) ==
  IF Len(parts) = 0 THEN <<>>
  ELSE IF Len(parts) = 1 THEN parts[1]
  ELSE parts[1] \o <<sep>> \o Join(Tail(parts), sep)

\* lexicographic order of two sequences of naturals
RECURSIVE LexLess(_, _)
LexLess(a, b) ==
  IF Len(b) = 0 THEN FALSE
  ELSE IF Len(a) = 0 THEN TRUE
  ELSE IF a[1] # b[1] THEN a[1] < b[1]
  ELSE LexLess(Tail(a), Tail(b))

(***************************************************************************)
(* packaging.version: parse, Version, LegacyVersion.                       *)
(* A string is a Version when it is an optional "v" and then 1 or more     *)
(* dot-separated numbers; every other string of the model's alphabet is a  *)
(* LegacyVersion.                                                          *)
(***************************************************************************)
RECURSIVE NumVal(_)
NumVal(ds) == IF Len(ds) = 0 THEN 0
              ELSE 10 * NumVal(SubStr(ds, 1, Len(ds) - 1)) + DigitVal(ds[Len(ds)])

IsNumber(ds) == Len(ds) > 0 /\ \A i \in 1..Len(ds) : IsDigit(ds[i])

\* the version whose dot-separated parts (after an optional "v") are `parts`
VersionOf(s, parts) ==
  IF \A i \in 1..Len(parts) : IsNumber(parts[i])
  THEN [kind |-> "Version", release |-> [i \in 1..Len(parts) |-> NumVal(parts[i])],
        text |-> <<>>]
  ELSE [kind |-> "LegacyVersion", release |-> <<>>, text |-> s]

parse(s) == VersionOf(s, Split(IF Len(s) > 0 /\ s[1] = "v" THEN Tail(s) ELSE s, "."))

IsVersion(p) == p.kind = "Version"

\* Version.major / .minor / .micro: the release segment, 0 when absent
major(p) == IF Len(p.release) >= 1 THEN p.release[1] ELSE 0
minor(p) == IF Len(p.release) >= 2 THEN p.release[2] ELSE 0
micro(p) == IF Len(p.release) >= 3 THEN p.release[3] ELSE 0

\* the comparison key of a Version: its release without trailing zeros
RECURSIVE StripZeros(_)
StripZeros(r) == IF Len(r) > 0 /\ r[Len(r)] = 0 THEN StripZeros(SubStr(r, 1, Len(r) - 1))
                 ELSE r

\* rank of a character in the order LegacyVersion strings are compared in
CharRank(c) == IF IsDigit(c) THEN DigitVal(c) ELSE 10 + (IF c = "x" THEN 1 ELSE 0)

\* p < q as packaging orders versions: a LegacyVersion sorts below every Version
VersionLess(p, q) ==
  IF IsVersion(p) /\ IsVersion(q) THEN LexLess(StripZeros(p.release), StripZeros(q.release))
  ELSE IF IsVersion(p) THEN FALSE
  ELSE IF IsVersion(q) THEN TRUE
  ELSE LexLess([i \in 1..Len(p.text) |-> CharRank(p.text[i])],
               [i \in 1..Len(q.text) |-> CharRank(q.text[i])])

(***************************************************************************)
(* Configuration values (src/src/config.py).                               *)
(***************************************************************************)
LATEST_RELEASE_TAG == "release-tag"
LATEST_RELEASE_COMMIT_SHA == "release-commit-sha"
DEFAULT_BRANCH_COMMIT_SHA == "default-branch-sha"

UPDATE_VERSION_WITH_LIST ==
  <<LATEST_RELEASE_TAG, LATEST_RELEASE_COMMIT_SHA, DEFAULT_BRANCH_COMMIT_SHA>>

MAJOR_RELEASE == "major"
MINOR_RELEASE == "minor"
PATCH_RELEASE == "patch"

ALL_RELEASE_TYPES == <<MAJOR_RELEASE, MINOR_RELEASE, PATCH_RELEASE>>

InList(x, l) == \E i \in 1..Len(l) : l[i] = x

\* Configuration.clean_release_types on the already split and stripped values:
\* ["all"] becomes ALL_RELEASE_TYPES, a list of known types is kept AS LISTED,
\* anything else is rejected (SystemExit(1)), reported here as Missing
clean_release_types(values) ==
  IF values = <<"all">> THEN ALL_RELEASE_TYPES
  ELSE IF \A i \in 1..Len(values) : InList(values[i], ALL_RELEASE_TYPES) THEN values
  ELSE Missing

(***************************************************************************)
(* Dicts.  A release / version-data dict is a record of strings in which   *)
(* an absent key holds Missing; the empty dict holds Missing everywhere.   *)
(***************************************************************************)
EmptyDict ==
  [tag_name |-> Missing, published_at |-> Missing, html_url |-> Missing,
   commit_sha |-> Missing, commit_url |-> Missing, commit_date |-> Missing,
   branch_name |-> Missing, branch_url |-> Missing]

\* Python truthiness of a str | None
Truthy(v) == v # Missing /\ v # <<>>

\* a value computed, or the exception raised instead
Ok(v) == [exc |-> "", val |-> v]
Raise(e, v) == [exc |-> e, val |-> v]

(***************************************************************************)
(* _get_github_releases: the list comprehension and the sort.              *)
(* A release of a response body is                                         *)
(*   [tag_name, published_at, html_url : string or Missing,                *)
(*    prerelease : "true" | "false" | "missing"].                          *)
(***************************************************************************)
\* the dict the comprehension builds for one release
ReleaseDict(release) ==
  [EmptyDict EXCEPT !.published_at = release.published_at,
                    !.html_url = release.html_url,
                    !.tag_name = release.tag_name]

\* whether building the comprehension's element for this release raises KeyError
ReleaseRaises(release) ==
  \/ release.prerelease = "missing"
  \/ /\ release.prerelease = "false"
     /\ Missing \in {release.published_at, release.html_url, release.tag_name}

\* insert dict d into a list sorted descending by parsed tag, after its equals
RECURSIVE InsertDesc(_, _)
InsertDesc(sorted, d) ==
  IF Len(sorted) = 0 THEN <<d>>
  ELSE IF VersionLess(parse(sorted[1].tag_name), parse(d.tag_name)) THEN <<d>> \o sorted
  ELSE <<sorted[1]>> \o InsertDesc(Tail(sorted), d)

\* sorted(releases, key=lambda r: r["tag_name_parsed"], reverse=True): stable
RECURSIVE SortedReverse(_)
SortedReverse(releases) ==
  IF Len(releases) = 0 THEN <<>>
  ELSE InsertDesc(SortedReverse(SubStr(releases, 1, Len(releases) - 1)),
                  releases[Len(releases)])

\* the releases of a body that are not prereleases, as dicts, in the body's order
NonPrereleases(body) ==
  LET keep == SelectSeq(body, LAMBDA release : release.prerelease = "false")
  IN [i \in 1..Len(keep) |-> ReleaseDict(keep[i])]

_get_github_releases(response) ==
  IF response.status = 200 /\ Len(response.body) > 0
  THEN IF \E i \in 1..Len(response.body) : ReleaseRaises(response.body[i])
       THEN Raise("KeyError", <<>>)
       ELSE Ok(SortedReverse(NonPrereleases(response.body)))
  ELSE Ok(<<>>)     \* logged as a warning

(***************************************************************************)
(* _release_filter_function.                                               *)
(***************************************************************************)
\* the three checks, in the order they are appended
CheckMajor(r, c) == major(r) > major(c)
CheckMinor(r, c) == major(r) = major(c) /\ minor(r) > minor(c)

\* a patch check that forgets to compare the minor numbers
CheckPatch_IgnoringMinor(r, c) == major(r) = major(c) /\ micro(r) > micro(c)

CheckPatch(r, c) == major(r) = major(c) /\ minor(r) = minor(c) /\ micro(r) > micro(c)

\* whether the configured list is "everything": a comparison of LISTS
IsAllReleaseTypes(release_types) == release_types = ALL_RELEASE_TYPES

\* "True" | "False" | "AttributeError" (r is a LegacyVersion and a check reads r.major)
_release_filter_function(release_types, r, c) ==
  IF IsAllReleaseTypes(release_types) THEN "True"
  ELSE LET useMajor == InList(MAJOR_RELEASE, release_types)
           useMinor == InList(MINOR_RELEASE, release_types)
           usePatch == InList(PATCH_RELEASE, release_types)
       IN IF ~(useMajor \/ useMinor \/ usePatch) THEN "False"
          ELSE IF ~IsVersion(r) THEN "AttributeError"
          ELSE IF \/ useMajor /\ CheckMajor(r, c)
                  \/ useMinor /\ CheckMinor(r, c)
                  \/ usePatch /\ CheckPatch(r, c)
               THEN "True" ELSE "False"

(***************************************************************************)
(* _get_latest_version_release.                                            *)
(***************************************************************************)
\* next(filter(f, github_releases), {}): the first release f accepts; stops at
\* the first AttributeError
\* the verdicts of the filter on each release of the list, in the list's order
FilterVerdicts(release_types, github_releases, c) ==
  [i \in 1..Len(github_releases) |->
     _release_filter_function(release_types, parse(github_releases[i].tag_name), c)]

\* a selection that takes the last release accepted, the smallest bump
NextFiltered_LastAccepted(github_releases, verdicts) ==
  LET accepted == {i \in 1..Len(verdicts) : verdicts[i] = "True"}
  IN IF accepted = {} THEN Ok(EmptyDict)
     ELSE Ok(github_releases[CHOOSE k \in accepted : \A j \in accepted : k >= j])

\* next(filter(...), {}) over the verdicts: the first release accepted, unless a
\* verdict before it is an AttributeError
NextFiltered(github_releases, verdicts) ==
  LET stops == {i \in 1..Len(verdicts) : verdicts[i] # "False"}
  IN IF stops = {} THEN Ok(EmptyDict)
     ELSE LET i == CHOOSE k \in stops : \A j \in stops : k <= j
          IN IF verdicts[i] = "AttributeError" THEN Raise("AttributeError", EmptyDict)
             ELSE Ok(github_releases[i])

\* a branch that answers the oldest release for a current version that is not
\* a semantic version
LatestOf_OldestForLegacy(github_releases, parsed_current_version, found) ==
  IF Len(github_releases) = 0
    THEN [exc |-> "", val |-> EmptyDict, warn |-> "no-release"]
  ELSE IF ~IsVersion(parsed_current_version)
    THEN [exc |-> "", val |-> github_releases[Len(github_releases)],
          warn |-> "current-not-semver"]
  ELSE IF found.exc = "AttributeError"
    THEN [exc |-> "", val |-> github_releases[1], warn |-> "releases-not-semver"]
  ELSE [exc |-> "", val |-> found.val, warn |-> ""]

\* a branch that answers nothing when the filter raises AttributeError
LatestOf_WithoutFallback(github_releases, parsed_current_version, found) ==
  IF Len(github_releases) = 0
    THEN [exc |-> "", val |-> EmptyDict, warn |-> "no-release"]
  ELSE IF ~IsVersion(parsed_current_version)
    THEN [exc |-> "", val |-> github_releases[1], warn |-> "current-not-semver"]
  ELSE IF found.exc = "AttributeError"
    THEN [exc |-> "", val |-> EmptyDict, warn |-> "releases-not-semver"]
  ELSE [exc |-> "", val |-> found.val, warn |-> ""]

\* the branch on the parsed current version and on what the filter found
LatestOf(github_releases, parsed_current_version, found) ==
  IF Len(github_releases) = 0
    THEN [exc |-> "", val |-> EmptyDict, warn |-> "no-release"]
  ELSE IF ~IsVersion(parsed_current_version)
    THEN [exc |-> "", val |-> github_releases[1], warn |-> "current-not-semver"]
  ELSE IF found.exc = "AttributeError"
    THEN [exc |-> "", val |-> github_releases[1], warn |-> "releases-not-semver"]
  ELSE [exc |-> "", val |-> found.val, warn |-> ""]

LatestFrom(release_types, got, parsed_current_version) ==
  IF got.exc # "" THEN [exc |-> got.exc, val |-> EmptyDict, warn |-> ""]
  ELSE LatestOf(got.val, parsed_current_version,
                NextFiltered(got.val,
                             FilterVerdicts(release_types, got.val,
                                            parsed_current_version)))

\* [exc, val: the release dict or EmptyDict, warn: the warning logged]
_get_latest_version_release(release_types, response, current_version) ==
  LatestFrom(release_types, _get_github_releases(response), parse(current_version))

(***************************************************************************)
(* The lookup collaborators (GitHub API).  What the API answers is the     *)
(* `world`, fixed for a run:                                               *)
(*   world.releases[repo] : [status, body]  the answer of list releases;   *)
(*   world.commits[repo]  : how list commits answers for every ref;        *)
(*   world.branch[repo]   : how repository metadata answers.               *)
(* A repository the world does not know answers 404.                       *)
(***************************************************************************)
NotFound == [status |-> 404, body |-> <<>>]

\* the commit a ref points to: "c" and the digits of the ref
ShaOf(ref) == <<"c">> \o SelectSeq(ref, IsDigit)

DefaultBranch == <<"m">>

ReleasesResponse(world, repo) ==
  IF repo \in DOMAIN world.releases THEN world.releases[repo] ELSE NotFound

CommitsResponse(world, repo, ref) ==
  LET mode == IF repo \in DOMAIN world.commits THEN world.commits[repo] ELSE "404"
      commit == [sha |-> ShaOf(ref), html_url |-> <<"u">> \o ShaOf(ref),
                 date |-> <<"d">> \o ShaOf(ref)]
  IN CASE mode = "ok"      -> [status |-> 200, body |-> <<commit>>]
       [] mode = "empty"   -> [status |-> 200, body |-> <<>>]
       [] mode = "nofield" -> [status |-> 200, body |-> <<[commit EXCEPT !.sha = Missing]>>]
       [] OTHER            -> NotFound

RepoResponse(world, repo) ==
  LET mode == IF repo \in DOMAIN world.branch THEN world.branch[repo] ELSE "404"
  IN CASE mode = "ok"      -> [status |-> 200, body |-> DefaultBranch]
       [] mode = "nofield" -> [status |-> 200, body |-> Missing]
       [] OTHER            -> [status |-> 404, body |-> Missing]

\* one call of a collaborator, as logged by the model
Call(api, repo, ref) == [api |-> api, repo |-> repo, ref |-> ref]

(***************************************************************************)
(* _get_commit_data and _get_default_branch_name.                          *)
(***************************************************************************)
_get_commit_data(response) ==
  IF response.status = 200
  THEN IF Len(response.body) = 0 THEN Raise("IndexError", EmptyDict)
       ELSE LET response_data == response.body[1]
            IN IF Missing \in {response_data.sha, response_data.html_url,
                               response_data.date}
               THEN Raise("KeyError", EmptyDict)
               ELSE Ok([EmptyDict EXCEPT !.commit_sha = response_data.sha,
                                         !.commit_url = response_data.html_url,
                                         !.commit_date = response_data.date])
  ELSE Ok(EmptyDict)    \* logged as a warning

_get_default_branch_name(response) ==
  IF response.status = 200
  THEN IF response.body = Missing THEN Raise("KeyError", Missing)
       ELSE Ok(response.body)
  ELSE Ok(Missing)      \* None, logged as a warning

\* {**a, **b}: the keys of b override those of a
Merge(a, b) == [k \in DOMAIN a |-> IF b[k] # Missing THEN b[k] ELSE a[k]]

(***************************************************************************)
(* _get_new_version (the body the @cache decorator wraps).                 *)
(* Result: [exc, new_version (Missing is None), data, calls].              *)
(***************************************************************************)
Resolved(exc, new_version, data, calls) ==
  [exc |-> exc, new_version |-> new_version, data |-> data, calls |-> calls]

\* update_version_with = release-tag, given the latest release found
NewVersionReleaseTag(action_repository, latest) ==
  IF latest.exc # ""
  THEN Resolved(latest.exc, Missing, EmptyDict,
                <<Call("releases", action_repository, <<>>)>>)
  ELSE Resolved("", latest.val.tag_name, latest.val,
                <<Call("releases", action_repository, <<>>)>>)

\* the rest of a commit-sha strategy, given the commit data fetched for ref:
\* `first` is the data merged under it, calls the calls made so far
NewVersionFromCommit(commit, first, calls) ==
  IF commit.exc # "" THEN Resolved(commit.exc, Missing, EmptyDict, calls)
  ELSE IF commit.val = EmptyDict THEN Resolved("", Missing, EmptyDict, calls)
  ELSE Resolved("", commit.val.commit_sha, Merge(first, commit.val), calls)

\* update_version_with = release-commit-sha, given the latest release found
NewVersionReleaseCommitSha(cfg, wld, action_repository, latest) ==
  IF latest.exc # ""
    THEN Resolved(latest.exc, Missing, EmptyDict,
                  <<Call("releases", action_repository, <<>>)>>)
  ELSE IF latest.val = EmptyDict
    THEN Resolved("", Missing, EmptyDict, <<Call("releases", action_repository, <<>>)>>)
  ELSE NewVersionFromCommit(
         _get_commit_data(CommitsResponse(wld, action_repository, latest.val.tag_name)),
         latest.val,
         <<Call("releases", action_repository, <<>>),
           Call("commits", action_repository, latest.val.tag_name)>>)

\* update_version_with = default-branch-sha, given the default branch found
NewVersionDefaultBranch(cfg, wld, action_repository, branch) ==
  IF branch.exc # ""
    THEN Resolved(branch.exc, Missing, EmptyDict,
                  <<Call("repo", action_repository, <<>>)>>)
  ELSE IF ~Truthy(branch.val)
    THEN Resolved("", Missing, EmptyDict, <<Call("repo", action_repository, <<>>)>>)
  ELSE NewVersionFromCommit(
         _get_commit_data(CommitsResponse(wld, action_repository, branch.val)),
         [EmptyDict EXCEPT !.branch_name = branch.val,
                           !.branch_url = action_repository \o <<"/">> \o branch.val],
         <<Call("repo", action_repository, <<>>),
           Call("commits", action_repository, branch.val)>>)

_get_new_version(cfg, wld, action_repository, current_version) ==
  IF cfg.update_version_with = LATEST_RELEASE_TAG
    THEN NewVersionReleaseTag(action_repository,
           _get_latest_version_release(cfg.release_types,
               ReleasesResponse(wld, action_repository), current_version))
  ELSE IF cfg.update_version_with = LATEST_RELEASE_COMMIT_SHA
    THEN NewVersionReleaseCommitSha(cfg, wld, action_repository,
           _get_latest_version_release(cfg.release_types,
               ReleasesResponse(wld, action_repository), current_version))
  ELSE NewVersionDefaultBranch(cfg, wld, action_repository,
           _get_default_branch_name(RepoResponse(wld, action_repository)))

(***************************************************************************)
(* re.sub(rf"({action})(\s+['\"]?|['\"]?$)", rf"{updated_action}\2",       *)
(*        text, 0, re.MULTILINE)                                           *)
(* The action is interpolated into the pattern as it is: of the characters *)
(* of the model only "." is special there (any character but a newline).   *)
(***************************************************************************)
PatternCharMatches(p, c) == IF p = "." THEN c # "\n" ELSE p = c

\* group 1: the action, as a pattern, matches text[i .. i + Len(action) - 1]
ActionMatchesAt(text, action, i) ==
  /\ i + Len(action) - 1 <= Len(text)
  /\ \A k \in 1..Len(action) : PatternCharMatches(action[k], text[i + k - 1])

\* "$" under re.MULTILINE holds at position j (the next character is text[j])
AtLineEnd(text, j) == j > Len(text) \/ text[j] = "\n"

\* the end of the longest run of whitespace starting at j (j itself when none)
RECURSIVE SkipSpaces(_, _)
SkipSpaces(text, j) ==
  IF j <= Len(text) /\ IsSpace(text[j]) THEN SkipSpaces(text, j + 1) ELSE j

\* group 2 tried at position j: 0 when it fails, else the position after it
Group2End(text, j) ==
  IF j <= Len(text) /\ IsSpace(text[j])
    THEN LET k == SkipSpaces(text, j)                    \* \s+['\"]?
         IN IF k <= Len(text) /\ IsQuote(text[k]) THEN k + 1 ELSE k
  ELSE IF j <= Len(text) /\ IsQuote(text[j]) /\ AtLineEnd(text, j + 1)
    THEN j + 1                                           \* ['\"]$
  ELSE IF AtLineEnd(text, j) THEN j                      \* $
  ELSE 0

MatchesAt(text, action, i) ==
  ActionMatchesAt(text, action, i) /\ Group2End(text, i + Len(action)) # 0

\* the non-overlapping matches re.sub finds scanning from position from:
\* a sequence of [start, stop] (stop: the position after the whole match)
RECURSIVE FindAll(_, _, _)
FindAll(text, action, from) ==
  LET starts == {i \in from..Len(text) : MatchesAt(text, action, i)}
  IN IF starts = {} THEN <<>>
     ELSE LET i == CHOOSE k \in starts : \A j \in starts : k <= j
              stop == Group2End(text, i + Len(action))
          IN <<[start |-> i, stop |-> stop]>> \o FindAll(text, action, stop)

\* the text with every match's group 1 replaced, group 2 kept
RECURSIVE Replace(_, _, _, _, _)
Replace(text, matches, from, n, updated_action) ==
  IF Len(matches) = 0 THEN SubStr(text, from, Len(text))
  ELSE LET m == matches[1]
       IN SubStr(text, from, m.start - 1) \o updated_action
            \o SubStr(text, m.start + n, m.stop - 1)
            \o Replace(text, Tail(matches), m.stop, n, updated_action)

re_sub(action, updated_action, text) ==
  Replace(text, FindAll(text, action, 1), 1, Len(action), updated_action)

(***************************************************************************)
(* yaml.load, for the documents of the model: a block sequence of          *)
(* one-pair mappings, one per line,                                        *)
(*     - key: value        - key: 'value'        - key: "value"  # comment *)
(* A parsed node is [type: "dict" | "list" | "str", items, value].         *)
(***************************************************************************)
StrNode(v) == [type |-> "str", items |-> <<>>, value |-> v]
ListNode(items) == [type |-> "list", items |-> items, value |-> <<>>]
\* a mapping: its items are <<key, node>> pairs
DictNode(items) == [type |-> "dict", items |-> items, value |-> <<>>]

YAMLError == [type |-> "YAMLError", items |-> <<>>, value |-> <<>>]

\* s without its leading / trailing whitespace
RECURSIVE LStrip(_)
LStrip(s) == IF Len(s) > 0 /\ IsSpace(s[1]) THEN LStrip(Tail(s)) ELSE s
RECURSIVE RStrip(_)
RStrip(s) == IF Len(s) > 0 /\ IsSpace(s[Len(s)]) THEN RStrip(SubStr(s, 1, Len(s) - 1))
             ELSE s

\* a comment (or nothing) is all that follows: "", or whitespace then "#..."
OnlyComment(rest) ==
  \/ LStrip(rest) = <<>>
  \/ Len(rest) > 0 /\ IsSpace(rest[1]) /\ LStrip(rest)[1] = "#"

\* a plain scalar ends at the first " #"
PlainEnd(s) ==
  LET cuts == {i \in 1..Len(s) : /\ s[i] = "#"
                                 /\ i > 1 /\ IsSpace(s[i - 1])}
  IN IF cuts = {} THEN Len(s)
     ELSE (CHOOSE i \in cuts : \A j \in cuts : i <= j) - 1

\* the scalar a value text denotes, or YAMLError
Scalar(s) ==
  IF Len(s) > 0 /\ IsQuote(s[1])
  THEN LET closes == {i \in 2..Len(s) : s[i] = s[1]}
       IN IF closes = {} THEN YAMLError
          ELSE LET k == CHOOSE i \in closes : \A j \in closes : i <= j
               IN IF OnlyComment(SubStr(s, k + 1, Len(s)))
                  THEN StrNode(SubStr(s, 2, k - 1)) ELSE YAMLError
  ELSE StrNode(RStrip(SubStr(s, 1, PlainEnd(s))))

\* one line "- key: value" as a one-pair mapping, or YAMLError
YamlLine(line) ==
  LET colons == {i \in 1..Len(line) - 1 : line[i] = ":" /\ line[i + 1] = " "}
  IN IF Len(line) < 2 \/ SubStr(line, 1, 2) # <<"-", " ">> \/ colons = {}
     THEN YAMLError
     ELSE LET c == CHOOSE i \in colons : \A j \in colons : i <= j
              v == Scalar(LStrip(SubStr(line, c + 1, Len(line))))
          IN IF v = YAMLError THEN YAMLError
             ELSE DictNode(<<<<SubStr(line, 3, c - 1), v>>>>)

yaml_load(text) ==
  LET lines == SelectSeq(Split(text, "\n"), LAMBDA l : LStrip(l) # <<>>)
      nodes == [i \in 1..Len(lines) |-> YamlLine(lines[i])]
  IN IF \E i \in 1..Len(nodes) : nodes[i] = YAMLError THEN YAMLError
     ELSE ListNode(nodes)

(***************************************************************************)
(* _get_all_actions: the values the generator yields, as nodes: the value  *)
(* of every "uses" key it comes to.  It does not descend into such a value.*)
(***************************************************************************)
workflow_action_key == <<"u", "s", "e", "s">>

RECURSIVE _get_all_actions(_)
_get_all_actions(data) ==
  IF data.type = "dict"
  THEN UNION {LET key == data.items[i][1]
                  value == data.items[i][2]
              IN IF key = workflow_action_key THEN {value}
                 ELSE IF value.type \in {"dict", "list"} THEN _get_all_actions(value)
                 ELSE {} : i \in 1..Len(data.items)}
  ELSE IF data.type = "list"
  THEN UNION {_get_all_actions(data.items[i]) : i \in 1..Len(data.items)}
  ELSE {}

\* set(...) over what the generator yielded: the strings, or TypeError when a
\* yielded value is a mapping or a sequence (unhashable)
SetOfYielded(yielded) ==
  IF \E n \in yielded : n.type # "str" THEN Raise("TypeError", {})
  ELSE Ok({n.value : n \in yielded})

\* all_actions = set(self._get_all_actions(workflow_data))
all_actions_of(workflow_data) == SetOfYielded(_get_all_actions(workflow_data))

(***************************************************************************)
(* Splitting a reference: action.split("@") and the first two segments.    *)
(***************************************************************************)
\* whether `action_location, current_version = action.split("@")` raises
SplitRaises(action) == Len(Split(action, "@")) # 2

action_location_of(action) == Split(action, "@")[1]
current_version_of(action) == Split(action, "@")[2]

\* "/".join(action_location.split("/")[:2])
action_repository_of(action_location) ==
  LET segs == Split(action_location, "/")
  IN Join(SubStr(segs, 1, IF Len(segs) < 2 THEN Len(segs) ELSE 2), "/")

(***************************************************************************)
(* _generate_updated_item_markdown: one line of the pull request body, as  *)
(* the values the f-string interpolates.                                   *)
(***************************************************************************)
_generate_updated_item_markdown(update_version_with, action_repository, version_data) ==
  IF update_version_with = LATEST_RELEASE_TAG
    THEN [repo |-> action_repository, text |-> "published a new release",
          name |-> version_data.tag_name, url |-> version_data.html_url,
          commit |-> Missing, date |-> version_data.published_at]
  ELSE IF update_version_with = LATEST_RELEASE_COMMIT_SHA
    THEN [repo |-> action_repository, text |-> "added a new commit to Tag",
          name |-> version_data.tag_name, url |-> version_data.html_url,
          commit |-> version_data.commit_url, date |-> version_data.commit_date]
  ELSE [repo |-> action_repository, text |-> "added a new commit to branch",
        name |-> version_data.branch_name, url |-> version_data.branch_url,
        commit |-> version_data.commit_url, date |-> version_data.commit_date]

(***************************************************************************)
(* The state of a run.                                                     *)
(***************************************************************************)
VARIABLES
  config,       \* user_config: update_version_with, release_types, ignore_actions,
                \*   extra_workflow_locations, skip_pull_request
  world,        \* what the GitHub API answers (see above) and world.workflows
  files,        \* the working tree: path -> [exists, text]
  committed,    \* the text git diff compares the working tree with
  run,          \* number of the current run of the updater
  pc,           \* where run() is
  todo,         \* workflow_paths not yet handed to _update_workflow
  cur,          \* workflow_path of the _update_workflow call in progress
  actions,      \* all_actions not yet iterated over
  updated_workflow_data,
  file_markdown,  \* updated_item_markdown_set of _update_workflow
  subs,           \* the substitutions applied to updated_workflow_data so far
  markdown,       \* updated_item_markdown_set of run()
  cache,        \* functools.cache of _get_new_version
  calls,        \* the collaborator calls made in this run, in order
  log,          \* what gha_utils logged in this run
  downstream,   \* branch / commit / pull request steps done in this run
  exit_code,    \* -1 while running, else the exit status of the process
  exception,    \* the uncaught exception that ended the run, or ""
  last,         \* the last iteration of the loop over all_actions
  rewritten,    \* [path, token]: tokens a substitution wrote in an earlier run
  query,        \* pure resolver check: the input
  answer        \* pure resolver check: the result

vars == <<config, world, files, committed, run, pc, todo, cur, actions,
          updated_workflow_data, file_markdown, subs, markdown, cache, calls, log,
          downstream, exit_code, exception, last, rewritten, query, answer>>

runVars == <<config, world, files, committed, run, pc, todo, cur, actions,
             updated_workflow_data, file_markdown, subs, markdown, cache, calls,
             log, downstream, exit_code, exception, last, rewritten>>

NoLast == [path |-> "", action |-> <<>>, outcome |-> "", updated_action |-> <<>>,
           before |-> <<>>, matches |-> <<>>, cached |-> FALSE, failed |-> FALSE]

NoCache == [k \in {} |-> 0]

Logged(level, what, subject) == [level |-> level, what |-> what, subject |-> subject]

\* git_has_changes(): git diff --exit-code over the working tree
git_has_changes ==
  \E p \in DOMAIN files : files[p].exists /\ files[p].text # committed[p].text

(***************************************************************************)
(* run(): _get_workflow_paths.                                             *)
(***************************************************************************)
_get_workflow_paths_from_api ==
  IF world.workflows.status = 200 THEN world.workflows.paths ELSE {}

GetWorkflowPaths ==
  /\ pc = "start"
  /\ LET workflow_paths == _get_workflow_paths_from_api
                             \cup config.extra_workflow_locations
     IN IF workflow_paths = {}
        THEN /\ pc' = "done"
             /\ exit_code' = 1
             /\ todo' = {}
        ELSE /\ pc' = "files"
             /\ todo' = workflow_paths
             /\ UNCHANGED exit_code
  /\ log' = log \cup
       (IF world.workflows.status # 200 THEN {Logged("error", "workflows", <<>>)} ELSE {})
  /\ calls' = Append(calls, Call("workflows", <<>>, <<>>))
  /\ UNCHANGED <<config, world, files, committed, run, cur, actions,
                 updated_workflow_data, file_markdown, subs, markdown, cache,
                 downstream, exception, last, rewritten, query, answer>>

(***************************************************************************)
(* _update_workflow: open, read, parse, scan, drop the ignored actions.    *)
(***************************************************************************)
\* open() raises FileNotFoundError: a warning, the file contributes nothing
FileNotFound ==
  /\ pc = "files"
  /\ \E p \in todo :
       /\ ~(p \in DOMAIN files /\ files[p].exists)
       /\ todo' = todo \ {p}
       /\ log' = log \cup {Logged("warning", "not-found", <<p>>)}
  /\ UNCHANGED <<config, world, files, committed, run, pc, cur, actions,
                 updated_workflow_data, file_markdown, subs, markdown, cache, calls,
                 downstream, exit_code, exception, last, rewritten, query, answer>>

\* a YAMLError after which the change records of the run are lost
YamlError_DroppingRecords ==
  /\ pc = "files"
  /\ \E p \in todo :
       /\ p \in DOMAIN files /\ files[p].exists
       /\ yaml_load(files[p].text) = YAMLError
       /\ todo' = todo \ {p}
       /\ log' = log \cup {Logged("error", "yaml", <<p>>)}
  /\ markdown' = {}
  /\ UNCHANGED <<config, world, files, committed, run, pc, cur, actions,
                 updated_workflow_data, file_markdown, subs, cache, calls,
                 downstream, exit_code, exception, last, rewritten, query, answer>>

\* yaml.load raises YAMLError: an error is logged, the empty set is returned
YamlError ==
  /\ pc = "files"
  /\ \E p \in todo :
       /\ p \in DOMAIN files /\ files[p].exists
       /\ yaml_load(files[p].text) = YAMLError
       /\ todo' = todo \ {p}
       /\ log' = log \cup {Logged("error", "yaml", <<p>>)}
  /\ UNCHANGED <<config, world, files, committed, run, pc, cur, actions,
                 updated_workflow_data, file_markdown, subs, markdown, cache, calls,
                 downstream, exit_code, exception, last, rewritten, query, answer>>

StartFile ==
  /\ pc = "files"
  /\ \E p \in todo :
       /\ p \in DOMAIN files /\ files[p].exists
       /\ LET workflow_data == yaml_load(files[p].text)
          IN /\ workflow_data # YAMLError
             /\ all_actions_of(workflow_data).exc = ""
             /\ actions' = all_actions_of(workflow_data).val \ config.ignore_actions
       /\ todo' = todo \ {p}
       /\ cur' = p
       /\ updated_workflow_data' = files[p].text
  /\ file_markdown' = {}
  /\ subs' = {}
  /\ pc' = "actions"
  /\ UNCHANGED <<config, world, files, committed, run, markdown, cache, calls, log,
                 downstream, exit_code, exception, last, rewritten, query, answer>>

(***************************************************************************)
(* _update_workflow: one iteration of `for action in all_actions`.         *)
(***************************************************************************)
\* a _get_new_version without @cache: every request is computed
CachedNewVersion_Recomputing(action_repository, current_version) ==
  [hit |-> FALSE,
   res |-> _get_new_version(config, world, action_repository, current_version)]

\* the cached _get_new_version: [hit, res]
CachedNewVersion(action_repository, current_version) ==
  LET key == <<action_repository, current_version>>
  IN IF key \in DOMAIN cache
     THEN [hit |-> TRUE,
           res |-> Resolved("", cache[key].new_version, cache[key].data, <<>>)]
     ELSE [hit |-> FALSE,
           res |-> _get_new_version(config, world, action_repository, current_version)]

\* whether a collaborator call was answered with a failure: a status that is
\* not 200, or a body without an expected field or element
CallFailed(c) ==
  CASE c.api = "releases" ->
         LET r == ReleasesResponse(world, c.repo)
         IN r.status # 200 \/ \E i \in 1..Len(r.body) : ReleaseRaises(r.body[i])
    [] c.api = "commits" ->
         LET r == CommitsResponse(world, c.repo, c.ref)
         IN r.status # 200 \/ Len(r.body) = 0 \/ r.body[1].sha = Missing
    [] c.api = "repo" ->
         LET r == RepoResponse(world, c.repo)
         IN r.status # 200 \/ r.body = Missing
    [] OTHER -> FALSE

\* an iteration without the test `action != updated_action`
IterationOf_AlwaysUpdating(action, action_location, action_repository, current_version, got) ==
  LET base == [outcome |-> "", updated_action |-> <<>>,
               text |-> updated_workflow_data, matches |-> <<>>, md |-> {},
               hit |-> got.hit, exc |-> got.res.exc, calls |-> got.res.calls,
               key |-> <<action_repository, current_version>>,
               res |-> [new_version |-> got.res.new_version, data |-> got.res.data],
               logged |-> {}]
  IN IF got.res.exc # "" THEN [base EXCEPT !.outcome = "raised"]
     ELSE IF ~Truthy(got.res.new_version)
       THEN [base EXCEPT !.outcome = "none",
                         !.logged = {Logged("warning", "no-new-version", action)}]
     ELSE [base EXCEPT
             !.outcome = "updated",
             !.updated_action = action_location \o <<"@">> \o got.res.new_version,
             !.md = {_generate_updated_item_markdown(
                        config.update_version_with, action_repository,
                        got.res.data)},
             !.matches = FindAll(updated_workflow_data, action, 1),
             !.text = re_sub(action,
                             action_location \o <<"@">> \o got.res.new_version,
                             updated_workflow_data)]

\* the iteration once the version is resolved: got is [hit, res]
IterationOf(action, action_location, action_repository, current_version, got) ==
  LET base == [outcome |-> "", updated_action |-> <<>>,
               text |-> updated_workflow_data, matches |-> <<>>, md |-> {},
               hit |-> got.hit, exc |-> got.res.exc, calls |-> got.res.calls,
               key |-> <<action_repository, current_version>>,
               res |-> [new_version |-> got.res.new_version, data |-> got.res.data],
               logged |-> {}]
  IN IF got.res.exc # "" THEN [base EXCEPT !.outcome = "raised"]
     ELSE IF ~Truthy(got.res.new_version)
       THEN [base EXCEPT !.outcome = "none",
                         !.logged = {Logged("warning", "no-new-version", action)}]
     ELSE IF action # action_location \o <<"@">> \o got.res.new_version
       THEN [base EXCEPT
               !.outcome = "updated",
               !.updated_action = action_location \o <<"@">> \o got.res.new_version,
               !.md = {_generate_updated_item_markdown(
                          config.update_version_with, action_repository,
                          got.res.data)},
               !.matches = FindAll(updated_workflow_data, action, 1),
               !.text = re_sub(action,
                               action_location \o <<"@">> \o got.res.new_version,
                               updated_workflow_data)]
     ELSE [base EXCEPT !.outcome = "same",
                       !.updated_action =
                          action_location \o <<"@">> \o got.res.new_version]

\* the iteration over a well-formed reference, split into its parts
IterationSplit(action, action_location, current_version) ==
  IterationOf(action, action_location, action_repository_of(action_location),
              current_version,
              CachedNewVersion(action_repository_of(action_location),
                               current_version))

\* an iteration for which a reference that cannot be split is fatal
Iteration_MalformedFatal(action) ==
  IF SplitRaises(action)
  THEN [outcome |-> "raised", updated_action |-> <<>>, text |-> updated_workflow_data,
        matches |-> <<>>, md |-> {}, hit |-> FALSE, exc |-> "ValueError", calls |-> <<>>,
        key |-> <<>>, res |-> EmptyDict,
        logged |-> {Logged("notice", "unsupported-format", action)}]
  ELSE IterationSplit(action, action_location_of(action), current_version_of(action))

\* what one iteration does, as a record; ProcessAction assigns it
Iteration(action) ==
  IF SplitRaises(action)
  THEN [outcome |-> "malformed", updated_action |-> <<>>, text |-> updated_workflow_data,
        matches |-> <<>>, md |-> {}, hit |-> FALSE, exc |-> "", calls |-> <<>>,
        key |-> <<>>, res |-> EmptyDict,
        logged |-> {Logged("notice", "unsupported-format", action)}]
  ELSE IterationSplit(action, action_location_of(action), current_version_of(action))

\* an iteration that keeps only its own change record for the file
Iterate_KeepingLastRecord(action, it) ==
  /\ actions' = actions \ {action}
  /\ updated_workflow_data' = it.text
  /\ file_markdown' = IF it.md = {} THEN file_markdown ELSE it.md
  /\ subs' = IF it.outcome = "updated"
             THEN subs \cup {[action |-> action,
                              updated_action |-> it.updated_action,
                              matched |-> Len(it.matches) > 0]}
             ELSE subs
  /\ cache' = IF it.key = <<>> \/ it.hit \/ it.exc # "" THEN cache
              ELSE [k \in DOMAIN cache \cup {it.key} |->
                      IF k = it.key THEN it.res ELSE cache[k]]
  /\ calls' = calls \o it.calls
  /\ log' = log \cup it.logged
  /\ last' = [path |-> cur, action |-> action, outcome |-> it.outcome,
              updated_action |-> it.updated_action,
              before |-> updated_workflow_data, matches |-> it.matches,
              cached |-> it.hit,
              failed |-> \E i \in 1..Len(it.calls) : CallFailed(it.calls[i])]
  /\ IF it.exc # ""
     THEN pc' = "done" /\ exit_code' = 1 /\ exception' = it.exc
     ELSE UNCHANGED <<pc, exit_code, exception>>

\* the state after an iteration `it` over `action`
Iterate(action, it) ==
  /\ actions' = actions \ {action}
  /\ updated_workflow_data' = it.text
  /\ file_markdown' = file_markdown \cup it.md
  /\ subs' = IF it.outcome = "updated"
             THEN subs \cup {[action |-> action,
                              updated_action |-> it.updated_action,
                              matched |-> Len(it.matches) > 0]}
             ELSE subs
  /\ cache' = IF it.key = <<>> \/ it.hit \/ it.exc # "" THEN cache
              ELSE [k \in DOMAIN cache \cup {it.key} |->
                      IF k = it.key THEN it.res ELSE cache[k]]
  /\ calls' = calls \o it.calls
  /\ log' = log \cup it.logged
  /\ last' = [path |-> cur, action |-> action, outcome |-> it.outcome,
              updated_action |-> it.updated_action,
              before |-> updated_workflow_data, matches |-> it.matches,
              cached |-> it.hit,
              failed |-> \E i \in 1..Len(it.calls) : CallFailed(it.calls[i])]
  \* an exception of a lookup is caught nowhere: the process ends
  /\ IF it.exc # ""
     THEN pc' = "done" /\ exit_code' = 1 /\ exception' = it.exc
     ELSE UNCHANGED <<pc, exit_code, exception>>

ProcessAction ==
  /\ pc = "actions"
  /\ \E action \in actions : Iterate(action, Iteration(action))
  /\ UNCHANGED <<config, world, files, committed, run, todo, cur, markdown,
                 downstream, rewritten, query, answer>>

\* after the loop: the file is written when a change record was added
FinishFile ==
  /\ pc = "actions"
  /\ actions = {}
  /\ IF file_markdown # {}
     THEN /\ files' = [files EXCEPT ![cur].text = updated_workflow_data]
          /\ rewritten' = rewritten \cup
               {[path |-> cur, token |-> s.updated_action] : s \in {t \in subs : t.matched}}
     ELSE UNCHANGED <<files, rewritten>>
  /\ markdown' = markdown \cup file_markdown
  /\ pc' = "files"
  /\ UNCHANGED <<config, world, committed, run, todo, cur, actions,
                 updated_workflow_data, file_markdown, subs, cache, calls, log,
                 downstream, exit_code, exception, last, query, answer>>

(***************************************************************************)
(* run(): after the loop over the workflow paths.                          *)
(***************************************************************************)
\* a decision taken on the change set instead of on git's answer
Decide_OnChangeSet ==
  /\ pc = "files"
  /\ todo = {}
  /\ IF markdown = {}
     THEN /\ log' = log \cup {Logged("notice", "up-to-date", <<>>)}
          /\ pc' = "done" /\ exit_code' = 0
          /\ UNCHANGED downstream
     ELSE IF config.skip_pull_request
     THEN /\ log' = log \cup {Logged("error", "updates-found-skipping", <<>>)}
          /\ downstream' = downstream \o <<"job_summary", "git_diff_summary">>
          /\ pc' = "done" /\ exit_code' = 1
     ELSE /\ downstream' = Append(downstream, "job_summary")
          /\ pc' = "branch"
          /\ UNCHANGED <<log, exit_code>>
  /\ UNCHANGED <<config, world, files, committed, run, todo, cur, actions,
                 updated_workflow_data, file_markdown, subs, markdown, cache, calls,
                 exception, last, rewritten, query, answer>>

\* no changes: the notice; changes and skip_pull_request: the diff, SystemExit(1)
Decide ==
  /\ pc = "files"
  /\ todo = {}
  /\ IF ~git_has_changes
     THEN /\ log' = log \cup {Logged("notice", "up-to-date", <<>>)}
          /\ pc' = "done" /\ exit_code' = 0
          /\ UNCHANGED downstream
     ELSE IF config.skip_pull_request
     THEN /\ log' = log \cup {Logged("error", "updates-found-skipping", <<>>)}
          /\ downstream' = downstream \o <<"job_summary", "git_diff_summary">>
          /\ pc' = "done" /\ exit_code' = 1
     ELSE /\ downstream' = Append(downstream, "job_summary")
          /\ pc' = "branch"
          /\ UNCHANGED <<log, exit_code>>
  /\ UNCHANGED <<config, world, files, committed, run, todo, cur, actions,
                 updated_workflow_data, file_markdown, subs, markdown, cache, calls,
                 exception, last, rewritten, query, answer>>

\* run_subprocess_command raises SystemExit(returncode) when git fails
create_new_git_branch ==
  /\ pc = "branch"
  /\ downstream' = Append(downstream, "create_new_git_branch")
  /\ \E returncode \in {0, 1} :
       IF returncode = 0 THEN pc' = "commit" /\ UNCHANGED exit_code
       ELSE pc' = "done" /\ exit_code' = returncode
  /\ UNCHANGED <<config, world, files, committed, run, todo, cur, actions,
                 updated_workflow_data, file_markdown, subs, markdown, cache, calls,
                 log, exception, last, rewritten, query, answer>>

git_commit_changes ==
  /\ pc = "commit"
  /\ downstream' = Append(downstream, "git_commit_changes")
  /\ \E returncode \in {0, 1} :
       IF returncode = 0
       THEN committed' = files /\ pc' = "pull_request" /\ UNCHANGED exit_code
       ELSE pc' = "done" /\ exit_code' = returncode /\ UNCHANGED committed
  /\ UNCHANGED <<config, world, files, run, todo, cur, actions,
                 updated_workflow_data, file_markdown, subs, markdown, cache, calls,
                 log, exception, last, rewritten, query, answer>>

\* create_pull_request answers 201 (a number), 422 "already exists" (None) or
\* anything else (SystemExit(1)); reviewers and labels follow a number
create_pull_request ==
  /\ pc = "pull_request"
  /\ \E status \in {201, 422, 500} :
       /\ downstream' = downstream \o
            (IF status = 201
             THEN <<"create_pull_request", "add_pull_request_reviewers",
                    "add_pull_request_labels">>
             ELSE <<"create_pull_request">>)
       /\ exit_code' = IF status = 500 THEN 1 ELSE 0
  /\ pc' = "done"
  /\ UNCHANGED <<config, world, files, committed, run, todo, cur, actions,
                 updated_workflow_data, file_markdown, subs, markdown, cache, calls,
                 log, exception, last, rewritten, query, answer>>

\* the updater is started again, on the files as the last run left them and
\* against the same upstream data
Rerun ==
  /\ pc = "done"
  /\ run < MaxRuns
  /\ run' = run + 1
  /\ pc' = "start"
  /\ committed' = files
  /\ todo' = {} /\ cur' = "" /\ actions' = {}
  /\ updated_workflow_data' = <<>> /\ file_markdown' = {} /\ subs' = {}
  /\ markdown' = {} /\ cache' = NoCache /\ calls' = <<>> /\ log' = {}
  /\ downstream' = <<>> /\ exit_code' = -1 /\ exception' = "" /\ last' = NoLast
  /\ UNCHANGED <<config, world, files, rewritten, query, answer>>

(***************************************************************************)
(* The inputs of the model: references, workflow files, configurations     *)
(* and upstream answers.                                                   *)
(***************************************************************************)
Repo == <<"o", "/", "r">>                       \* owner/repo

RefT == Repo \o <<"@", "1", ".", "0">>          \* o/r@1.0
RefS == Repo \o <<"/", "s", "@", "1", ".", "0">> \* o/r/s@1.0, a subpath of the same repo
RefL == RefT \o <<"-", "x">>                    \* o/r@1.0-x, RefT and a suffix
RefX == <<"x">> \o RefT                         \* xo/r@1.0, RefT after a prefix
RefN == Repo \o <<"@", "2", ".", "0">>          \* o/r@2.0
RefB == Repo                                    \* o/r, no "@"
RefW == Repo \o <<"@", "1", "x", "0">>          \* o/r@1x0
RefD == RefT \o <<"/">> \o RefT                  \* o/r@1.0/o/r@1.0, RefT twice

\* "- uses: <token>", quoted with q ("" for no quote), with or without a comment
UsesLine(token, q, comment) ==
  <<"-", " ">> \o workflow_action_key \o <<":", " ">>
    \o (IF q = "" THEN token ELSE <<q>> \o token \o <<q>>)
    \o (IF comment THEN <<" ", "#", "c">> ELSE <<>>)

\* a line whose quote is never closed: not YAML
BadLine == <<"-", " ">> \o workflow_action_key \o <<":", " ", "'">> \o RefT

FileText(lines) == Join(lines, "\n") \o <<"\n">>

File(lines) == [exists |-> TRUE, text |-> FileText(lines)]

\* the working trees: path -> file
Trees ==
  { [p \in {"a"} |-> File(<<UsesLine(RefT, "", FALSE), UsesLine(RefX, "", FALSE)>>)],
    [p \in {"a"} |-> File(<<UsesLine(RefT, "", FALSE), UsesLine(RefL, "", FALSE),
                            UsesLine(RefT, "\"", FALSE)>>)],
    [p \in {"a", "b"} |->
       IF p = "a" THEN File(<<UsesLine(RefT, "", FALSE), UsesLine(RefS, "", TRUE)>>)
       ELSE File(<<UsesLine(RefT, "'", TRUE), UsesLine(RefN, "", FALSE)>>)],
    [p \in {"a"} |-> File(<<UsesLine(RefB, "", FALSE), UsesLine(RefT, "'", FALSE)>>)],
    [p \in {"a", "b"} |->
       IF p = "a" THEN File(<<BadLine>>) ELSE File(<<UsesLine(RefT, "", FALSE)>>)],
    [p \in {"a"} |-> File(<<UsesLine(RefT, "", FALSE), UsesLine(RefW, "", FALSE)>>)],
    [p \in {"a"} |-> File(<<UsesLine(RefT, "", FALSE), UsesLine(RefD, "", FALSE)>>)],
    [p \in {"a", "b"} |->
       IF p = "a" THEN File(<<UsesLine(RefB, "", FALSE), UsesLine(RefT, "'", FALSE)>>)
       ELSE File(<<UsesLine(RefT, "", FALSE)>>)] }

TwoFiles == CHOOSE t \in Trees :
              /\ DOMAIN t = {"a", "b"}
              /\ t["b"].text = FileText(<<UsesLine(RefT, "'", TRUE), UsesLine(RefN, "", FALSE)>>)

\* [files, workflows: the answer of list workflows, extra: extra_workflow_locations]
FileWorlds ==
  { [files |-> t, workflows |-> [status |-> 200, paths |-> DOMAIN t], extra |-> {}]
      : t \in Trees }
  \cup
  { [files |-> TwoFiles, workflows |-> [status |-> 404, paths |-> {}], extra |-> {}],
    [files |-> TwoFiles, workflows |-> [status |-> 404, paths |-> {}], extra |-> {"a"}],
    [files |-> TwoFiles, workflows |-> [status |-> 200, paths |-> {"a", "z"}],
     extra |-> {}] }

\* a release of a response body
Release(tag, prerelease) ==
  [tag_name |-> tag, published_at |-> <<"p">> \o tag, html_url |-> <<"h">> \o tag,
   prerelease |-> prerelease]

Tag20 == <<"2", ".", "0">>
Tag11 == <<"1", ".", "1">>
TagX == <<"x">>

\* the answers of list releases for Repo in a run
RunReleases ==
  { [status |-> 200, body |-> <<Release(Tag11, "false"), Release(Tag20, "false")>>],
    [status |-> 200, body |-> <<Release(TagX, "false"), Release(Tag11, "false")>>],
    [status |-> 404, body |-> <<>>],
    [status |-> 200, body |-> <<Release(Tag20, "missing")>>] }

\* [update_version_with, release_types, releases, commits, branch]: the
\* strategies with the answers each of them reads
Strategies ==
  { [update_version_with |-> LATEST_RELEASE_TAG, release_types |-> rt,
     releases |-> rel, commits |-> "ok", branch |-> "ok"]
      : rt \in {ALL_RELEASE_TYPES, <<MINOR_RELEASE>>,
                <<PATCH_RELEASE, MINOR_RELEASE, MAJOR_RELEASE>>},
        rel \in RunReleases }
  \cup
  { [update_version_with |-> LATEST_RELEASE_COMMIT_SHA, release_types |-> rt,
     releases |-> [status |-> 200,
                   body |-> <<Release(Tag11, "false"), Release(Tag20, "false")>>],
     commits |-> cm, branch |-> "ok"]
      : rt \in {ALL_RELEASE_TYPES, <<MINOR_RELEASE>>},
        cm \in {"ok", "404", "empty", "nofield"} }
  \cup
  { [update_version_with |-> DEFAULT_BRANCH_COMMIT_SHA,
     release_types |-> ALL_RELEASE_TYPES,
     releases |-> [status |-> 404, body |-> <<>>], commits |-> bc[2], branch |-> bc[1]]
      : bc \in {<<"ok", "ok">>, <<"ok", "empty">>, <<"ok", "404">>,
                <<"404", "ok">>, <<"nofield", "ok">>} }

IgnoreSets == {{}, {Repo}, {RefL}, {RefX}, {RefT}}

NoQuery == [values |-> <<>>, current_version |-> <<>>, body |-> <<>>]
NoAnswer == [done |-> FALSE, new_version |-> Missing, exc |-> "", sorted |-> <<>>,
             filtered |-> <<>>, warn |-> ""]

Init ==
  /\ \E st \in Strategies, fw \in FileWorlds, ig \in IgnoreSets, skip \in BOOLEAN :
       /\ config = [update_version_with |-> st.update_version_with,
                    release_types |-> st.release_types,
                    ignore_actions |-> ig,
                    extra_workflow_locations |-> fw.extra,
                    skip_pull_request |-> skip]
       /\ world = [releases |-> [r \in {Repo} |-> st.releases],
                   commits |-> [r \in {Repo} |-> st.commits],
                   branch |-> [r \in {Repo} |-> st.branch],
                   workflows |-> fw.workflows]
       /\ files = fw.files
       /\ committed = fw.files
  /\ run = 1
  /\ pc = "start"
  /\ todo = {} /\ cur = "" /\ actions = {}
  /\ updated_workflow_data = <<>> /\ file_markdown = {} /\ subs = {}
  /\ markdown = {} /\ cache = NoCache /\ calls = <<>> /\ log = {}
  /\ downstream = <<>> /\ exit_code = -1 /\ exception = "" /\ last = NoLast
  /\ rewritten = {}
  /\ query = NoQuery /\ answer = NoAnswer

Next ==
  \/ GetWorkflowPaths
  \/ FileNotFound
  \/ YamlError
  \/ StartFile
  \/ ProcessAction
  \/ FinishFile
  \/ Decide
  \/ create_new_git_branch
  \/ git_commit_changes
  \/ create_pull_request
  \/ Rerun

Spec == Init /\ [][Next]_vars

(***************************************************************************)
(* Statements about a run.                                                 *)
(***************************************************************************)
Lines(text) == Split(text, "\n")

\* whitespace or a quote: what may stand next to a token
IsBoundary(c) == IsSpace(c) \/ IsQuote(c)

\* position i of text is the start of a line or follows whitespace or a quote
PrecededByBoundary(text, i) == i = 1 \/ IsBoundary(text[i - 1])

\* position j of text is past the end of a line or holds whitespace or a quote
FollowedByBoundary(text, j) == j > Len(text) \/ IsBoundary(text[j])

\* the line is a reference to the token, quoted or not, with or without a comment
IsUseOf(line, token) ==
  \E q \in {"", "'", "\""}, comment \in BOOLEAN : line = UsesLine(token, q, comment)

\* line k of the file being updated is as it was when the file was opened
LineUnchanged(k) == Lines(updated_workflow_data)[k] = Lines(files[cur].text)[k]

\* every line of the file being updated that is a reference to the token is
\* as it was when the file was opened
TokenUntouched(token) ==
  \A k \in 1..Len(Lines(files[cur].text)) :
    IsUseOf(Lines(files[cur].text)[k], token) => LineUnchanged(k)

\* L is T and more: T, then a character that is neither whitespace nor a quote
IsLongerToken(L, T) ==
  /\ Len(L) > Len(T)
  /\ SubStr(L, 1, Len(T)) = T
  /\ ~IsBoundary(L[Len(T) + 1])

\* C1: a substitution rewrites an occurrence of the old token only where the
\* occurrence is preceded by whitespace, a quote or the start of a line and
\* followed by whitespace, a quote or the end of a line.
C1_BothSideBoundaries ==
  last.outcome = "updated" =>
    \A k \in 1..Len(last.matches) :
      /\ PrecededByBoundary(last.before, last.matches[k].start)
      /\ FollowedByBoundary(last.before, last.matches[k].start + Len(last.action))

\* C2: when only a token T of a file is substituted, every reference to a
\* longer token that starts with T followed by a character that is neither
\* whitespace nor a quote is unchanged in the updated text.
C2_SuffixSafety ==
  pc = "actions" =>
    \A s \in subs : subs = {s} =>
      \A L \in all_actions_of(yaml_load(files[cur].text)).val :
        IsLongerToken(L, s.action) => TokenUntouched(L)

\* C3: an action whose owner/repo is an entry of the ignore list is never
\* resolved: no lookup call is made for its repository and no substitution
\* is applied for it.
C3_IgnoreByRepository ==
  /\ \A i \in 1..Len(calls) :
       calls[i].api # "workflows" => calls[i].repo \notin config.ignore_actions
  /\ \A s \in subs :
       action_repository_of(action_location_of(s.action)) \notin config.ignore_actions

\* C4: a reference whose raw token is an `owner/repo@version` entry of the
\* ignore list is never iterated over (so _get_new_version is not called for
\* it) and no line that references it is rewritten.
C4_IgnoreByExactToken ==
  /\ last.action \notin config.ignore_actions
  /\ pc = "actions" =>
       \A token \in config.ignore_actions :
         Positions(token, "@") # {} => TokenUntouched(token)

\* C5: in a run after the first, a reference that an earlier run wrote into
\* the file resolves to the token it already has or to no update: it is not
\* substituted again.
C5_Idempotence ==
  (run > 1 /\ [path |-> last.path, token |-> last.action] \in rewritten) =>
    last.outcome \in {"none", "same"}

\* C6: when a lookup call of an iteration is answered with a failure (a
\* non-success status, or a body without an expected field or element), the
\* iteration yields no update and no exception ends the run.
C6_LookupFailuresReferenceScoped ==
  last.failed => (last.outcome = "none" /\ exception = "")

(***************************************************************************)
(* The resolver alone: release-tag resolution applied to every bounded     *)
(* input (the user's release_types input, a current version, a list of     *)
(* releases the collaborator answers with).                                *)
(***************************************************************************)
Ver(a, b, c) == <<Digits[a + 1], ".", Digits[b + 1], ".", Digits[c + 1]>>
VVer(a, b, c) == <<"v">> \o Ver(a, b, c)

\* the releases a collaborator's answer is drawn from
ResolveReleases ==
  { Release(Ver(2, 0, 0), "false"), Release(Ver(1, 1, 0), "false"),
    Release(Ver(1, 0, 1), "false"), Release(Ver(1, 0, 0), "false"),
    Release(<<"v", "1">>, "false"), Release(TagX, "false"),
    Release(Ver(3, 0, 0), "true") }

ResolveCurrents ==
  {Ver(0, 1, 0), Ver(1, 0, 0), Ver(1, 0, 1), Ver(1, 1, 0), Ver(2, 0, 0), TagX}

\* the release_types input, split and stripped
ResolveValues ==
  { <<"all">>, ALL_RELEASE_TYPES, <<PATCH_RELEASE, MINOR_RELEASE, MAJOR_RELEASE>>,
    <<MAJOR_RELEASE>>, <<MINOR_RELEASE>>, <<PATCH_RELEASE>>,
    <<MAJOR_RELEASE, PATCH_RELEASE>>, <<MINOR_RELEASE, PATCH_RELEASE>>, <<>> }

\* the lists of up to n different elements of S (no tag is released twice)
SeqsUpTo(S, n) ==
  UNION {{q \in [1..k -> S] : \A i, j \in 1..k : q[i] = q[j] => i = j} : k \in 0..n}

\* the examples the specification works through
ExamplePatchOnly ==
  [values |-> <<PATCH_RELEASE>>, current_version |-> VVer(1, 2, 3),
   body |-> <<Release(VVer(2, 0, 0), "false"), Release(VVer(1, 3, 0), "false"),
              Release(VVer(1, 2, 4), "false")>>]

ExampleHighestFirst ==
  [values |-> <<MAJOR_RELEASE, PATCH_RELEASE>>, current_version |-> VVer(1, 2, 3),
   body |-> <<Release(VVer(2, 0, 0), "false"), Release(VVer(1, 2, 4), "false")>>]

ExampleLegacy ==
  [values |-> <<PATCH_RELEASE>>,
   current_version |-> <<"a", "b", "c", "d", "e", "f", "1">>,
   body |-> <<Release(VVer(1, 0, 0), "false"), Release(VVer(1, 1, 0), "false")>>]

ResolveQueries ==
  [values : ResolveValues, current_version : ResolveCurrents,
   body : SeqsUpTo(ResolveReleases, MaxReleases)]
  \cup {ExamplePatchOnly, ExampleHighestFirst, ExampleLegacy}

InitResolve ==
  /\ query \in ResolveQueries
  /\ answer = NoAnswer
  /\ config = [update_version_with |-> LATEST_RELEASE_TAG,
               release_types |-> clean_release_types(query.values),
               ignore_actions |-> {}, extra_workflow_locations |-> {},
               skip_pull_request |-> FALSE]
  /\ world = [releases |-> [r \in {Repo} |-> [status |-> 200, body |-> query.body]],
              commits |-> [r \in {Repo} |-> "ok"],
              branch |-> [r \in {Repo} |-> "ok"],
              workflows |-> [status |-> 200, paths |-> {}]]
  /\ files = [p \in {} |-> 0] /\ committed = [p \in {} |-> 0]
  /\ run = 1
  /\ pc = "resolve"
  /\ todo = {} /\ cur = "" /\ actions = {}
  /\ updated_workflow_data = <<>> /\ file_markdown = {} /\ subs = {}
  /\ markdown = {} /\ cache = NoCache /\ calls = <<>> /\ log = {}
  /\ downstream = <<>> /\ exit_code = -1 /\ exception = "" /\ last = NoLast
  /\ rewritten = {}

\* what a resolution answered, with the sorted candidates and the filter's verdicts
AnswerOf(res, got, c) ==
  [done |-> TRUE, new_version |-> res.new_version, exc |-> res.exc,
   sorted |-> got.val,
   warn |-> LatestFrom(config.release_types, got, c).warn,
   filtered |-> IF IsVersion(c) THEN FilterVerdicts(config.release_types, got.val, c)
                ELSE <<>>]

Resolve ==
  /\ pc = "resolve"
  /\ ~answer.done
  /\ answer' = AnswerOf(_get_new_version(config, world, Repo, query.current_version),
                        _get_github_releases(ReleasesResponse(world, Repo)),
                        parse(query.current_version))
  /\ UNCHANGED <<runVars, query>>

NextResolve == Resolve

SpecResolve == InitResolve /\ [][NextResolve]_vars

(***************************************************************************)
(* Vocabulary of the statements below.                                     *)
(***************************************************************************)
TypeSet(release_types) == {release_types[i] : i \in 1..Len(release_types)}

FullTypeSet == {MAJOR_RELEASE, MINOR_RELEASE, PATCH_RELEASE}

\* the k-th number of a semantic version (major, minor, patch), 0 when not written
Part(p, k) == IF k <= Len(p.release) THEN p.release[k] ELSE 0

\* the qualification rule of a restricted policy, as the specification words it
Qualifies(types, r, c) ==
  \/ MAJOR_RELEASE \in types /\ Part(r, 1) > Part(c, 1)
  \/ /\ MINOR_RELEASE \in types
     /\ Part(r, 1) = Part(c, 1) /\ Part(r, 2) > Part(c, 2)
  \/ /\ PATCH_RELEASE \in types
     /\ Part(r, 1) = Part(c, 1) /\ Part(r, 2) = Part(c, 2)
     /\ Part(r, 3) > Part(c, 3)

\* the string parses as a semantic version
IsSemantic(p) == p.kind = "Version"

\* ReleaseFilter over any policy: the full set filters nothing
FilterAccepts(types, r, c) ==
  IsSemantic(r) /\ IsSemantic(c) /\ (types = FullTypeSet \/ Qualifies(types, r, c))

QueryCurrent == parse(query.current_version)
QueryTypes == TypeSet(config.release_types)
SortedTag(i) == parse(answer.sorted[i].tag_name)

\* the release the resolver answered with is the i-th sorted candidate
Selected(i) == answer.new_version = answer.sorted[i].tag_name

\* the resolver answered None
SelectedNone == answer.new_version = Missing

RestrictedQuery ==
  /\ answer.done
  /\ IsSemantic(QueryCurrent)
  /\ QueryTypes # FullTypeSet

\* no sorted candidate with a semantic tag qualifies, and one tag is not semantic
FallbackCase ==
  /\ QueryTypes # {}
  /\ \E i \in 1..Len(answer.sorted) : ~IsSemantic(SortedTag(i))
  /\ \A i \in 1..Len(answer.sorted) :
       IsSemantic(SortedTag(i)) => ~FilterAccepts(QueryTypes, SortedTag(i), QueryCurrent)

(***************************************************************************)
(* C7 (as claimed).  Under a restricted policy and a semantic current      *)
(* version the resolver answers None or a release that satisfies           *)
(* ReleaseFilter, whatever tags the list holds.                            *)
(***************************************************************************)
C7_PolicyRespecting ==
  RestrictedQuery =>
    \/ SelectedNone
    \/ \E i \in 1..Len(answer.sorted) :
         Selected(i) /\ FilterAccepts(QueryTypes, SortedTag(i), QueryCurrent)

(***************************************************************************)
(* C7 (amended).  Under a restricted policy and a semantic current version *)
(* the resolver answers None or a release that satisfies ReleaseFilter,    *)
(* except when the list holds a tag that is not a semantic version and no  *)
(* semantic candidate qualifies: then it answers the first release of the  *)
(* descending order, qualified or not.                                     *)
(***************************************************************************)
C7_PolicyRespectingOrFallback ==
  RestrictedQuery =>
    IF FallbackCase THEN Selected(1)
    ELSE \/ SelectedNone
         \/ \E i \in 1..Len(answer.sorted) :
              Selected(i) /\ FilterAccepts(QueryTypes, SortedTag(i), QueryCurrent)

\* a restricted query answered by the fallback with a semantic release that
\* does not qualify
C7_Witness ==
  /\ RestrictedQuery
  /\ FallbackCase
  /\ Selected(1)
  /\ IsSemantic(SortedTag(1))
  /\ ~FilterAccepts(QueryTypes, SortedTag(1), QueryCurrent)

(***************************************************************************)
(* C8.  Under a restricted policy a semantic candidate r qualifies against *)
(* a semantic current version c iff major is allowed and r.major > c.major,*)
(* or minor is allowed and the majors agree and r.minor > c.minor, or      *)
(* patch is allowed and majors and minors agree and r.patch > c.patch; and *)
(* with policy {patch}, current v1.2.3 and candidates v2.0.0, v1.3.0,      *)
(* v1.2.4 only v1.2.4 qualifies and is selected.                           *)
(***************************************************************************)
C8_FilterPredicate ==
  /\ RestrictedQuery =>
       \A i \in 1..Len(answer.sorted) :
         IsSemantic(SortedTag(i)) =>
           (answer.filtered[i] = "True" <=> Qualifies(QueryTypes, SortedTag(i), QueryCurrent))
  /\ (answer.done /\ query = ExamplePatchOnly) =>
       /\ answer.new_version = VVer(1, 2, 4)
       /\ {i \in 1..3 : answer.filtered[i] = "True"} = {3}

\* the specification's patch-only example, resolved to v1.2.4
C8_Witness ==
  /\ answer.done
  /\ query = ExamplePatchOnly
  /\ answer.new_version = VVer(1, 2, 4)

(***************************************************************************)
(* Orders of a response.                                                   *)
(***************************************************************************)
Orders(n) == {f \in [1..n -> 1..n] : \A i, j \in 1..n : f[i] = f[j] => i = j}

\* the release-tag resolution of the query had the collaborator answered its
\* releases in the order f
ResolvedInOrder(f) ==
  _get_latest_version_release(config.release_types,
      [status |-> 200, body |-> [i \in 1..Len(query.body) |-> query.body[f[i]]]],
      query.current_version).val.tag_name

\* the tag answered in another order is the one answered
SameTag(tag) == tag = answer.new_version

\* the tag answered in another order parses to the version of the one answered
SameVersion(tag) ==
  IF SelectedNone THEN tag = Missing
  ELSE /\ tag # Missing
       /\ ~VersionLess(parse(tag), parse(answer.new_version))
       /\ ~VersionLess(parse(answer.new_version), parse(tag))

Descending(sorted) ==
  \A i \in 1..Len(sorted) - 1 :
    ~VersionLess(parse(sorted[i].tag_name), parse(sorted[i + 1].tag_name))

\* the sorted candidates that qualify: those the filter function said True to
Accepted == {i \in 1..Len(answer.sorted) : answer.filtered[i] = "True"}

\* the first sorted candidate that qualifies, 0 when there is none
FirstAccepted ==
  IF Accepted = {} THEN 0 ELSE CHOOSE i \in Accepted : \A j \in Accepted : i <= j

\* the query the highest-first rule is about: a semantic current version and at
\* least one candidate that is not a prerelease
FilteredQuery == answer.done /\ answer.exc = "" /\ IsSemantic(QueryCurrent)

AllTagsSemantic == \A i \in 1..Len(answer.sorted) : IsSemantic(SortedTag(i))

C10_FullSetNoFiltering ==
  (answer.done /\ answer.exc = "" /\ QueryTypes = FullTypeSet
     /\ Len(answer.sorted) > 0) => Selected(1)

(***************************************************************************)
(* C11.  When the current version does not parse as a semantic version and *)
(* the lookup answers at least one release that is not a prerelease, the   *)
(* release-tag resolution answers the first release of the descending      *)
(* order, whatever release types are allowed, and logs the warning about   *)
(* the current version; for current "abcdef1" and releases v1.0.0, v1.1.0  *)
(* it answers v1.1.0.                                                      *)
(***************************************************************************)
C11_LegacyFallback ==
  /\ (answer.done /\ answer.exc = "" /\ ~IsSemantic(QueryCurrent)
        /\ Len(answer.sorted) > 0) =>
       /\ Descending(answer.sorted)
       /\ Selected(1)
       /\ answer.warn = "current-not-semver"
  /\ (answer.done /\ query = ExampleLegacy) => answer.new_version = VVer(1, 1, 0)

\* a restricted policy, a current version that is no semantic version, and the
\* newest of several releases answered though the lookup listed it last
C11_Witness ==
  /\ answer.done
  /\ ~IsSemantic(QueryCurrent)
  /\ QueryTypes = {PATCH_RELEASE}
  /\ Len(answer.sorted) >= 2
  /\ VersionLess(SortedTag(2), SortedTag(1))
  /\ answer.sorted[1].tag_name = query.body[Len(query.body)].tag_name
  /\ Selected(1)
  /\ answer.warn = "current-not-semver"

(***************************************************************************)
(* Statements about the iterations of a run.                               *)
(***************************************************************************)
\* the step is an iteration of the loop over all_actions; last' describes it
IterationStep == pc = "actions" /\ actions' # actions

\* the (action_repository, current_version) pair of a well-formed reference
PairOf(action) ==
  <<action_repository_of(action_location_of(action)), current_version_of(action)>>

\* the outcome of an iteration over `action` that is handed the result `res`
AnswersWith(it, action, res) ==
  IF Truthy(res.new_version)
  THEN /\ it.outcome \in {"updated", "same"}
       /\ it.updated_action = action_location_of(action) \o <<"@">> \o res.new_version
  ELSE it.outcome = "none"

\* C12: in a run, a request for a pair that was resolved before makes no
\* collaborator call and is answered with the result computed the first time
\* (an update or no update); a request for a new pair that returns is
\* remembered.
C12_Memoization ==
  [][(IterationStep /\ ~SplitRaises(last'.action)) =>
       IF PairOf(last'.action) \in DOMAIN cache
       THEN /\ calls' = calls
            /\ cache' = cache
            /\ AnswersWith(last', last'.action, cache[PairOf(last'.action)])
       ELSE exception' = "" => PairOf(last'.action) \in DOMAIN cache']_vars

\* a later file asks for a pair an earlier file resolved to no update
C12_Witness ==
  /\ last.cached
  /\ last.path = "b"
  /\ last.outcome = "none"
  /\ PairOf(last.action) \in DOMAIN cache

\* the resolution of a well-formed reference answers None or the token's own version
ResolvesToNoUpdate(action, res) ==
  /\ res.exc = ""
  /\ \/ ~Truthy(res.new_version)
     \/ action = action_location_of(action) \o <<"@">> \o res.new_version

\* the reference produces no update: it is ignored, malformed, resolves to
\* None, or resolves to the token it already has
NoUpdateFor(action) ==
  \/ action \in config.ignore_actions
  \/ SplitRaises(action)
  \/ ResolvesToNoUpdate(action,
        _get_new_version(config, world,
                         action_repository_of(action_location_of(action)),
                         current_version_of(action)))

\* the references the scanner finds in a file's text, none when it is not YAML
ReferencesOf(data) == IF data = YAMLError THEN {} ELSE all_actions_of(data).val

\* no reference of the text produces an update
NoUpdateIn(text) == \A action \in ReferencesOf(yaml_load(text)) : NoUpdateFor(action)

\* C13: when no reference of a file produces an update, the text kept for
\* the file is the text read, no change record is added (so the file is not
\* written), and the file's content stays what it was when the run started.
C13_NoOpRoundTrip ==
  /\ (pc = "actions" /\ NoUpdateIn(files[cur].text)) =>
       /\ updated_workflow_data = files[cur].text
       /\ file_markdown = {}
  /\ \A p \in DOMAIN files :
       NoUpdateIn(committed[p].text) => files[p].text = committed[p].text

\* a file whose only resolvable reference resolves to the token it already
\* has, after its _update_workflow
C13_Witness ==
  /\ pc = "files"
  /\ last.outcome = "same"
  /\ last.path = cur
  /\ NoUpdateIn(committed[cur].text)
  /\ files[cur].text = committed[cur].text

\* line k of the file being updated was a reference to s.action and is now the
\* same line with s.updated_action in its place
RewrittenLine(k, s) ==
  \E q \in {"", "'", "\""}, comment \in BOOLEAN :
    /\ Lines(files[cur].text)[k] = UsesLine(s.action, q, comment)
    /\ Lines(updated_workflow_data)[k] = UsesLine(s.updated_action, q, comment)

\* C14: whenever a reference resolves to a different token and a change
\* record is added for it, every line of the file that references it holds
\* the new token in its place, whether the reference is unquoted or quoted
\* and whether or not a comment follows it.
C14_UpdateReachesFile ==
  pc = "actions" =>
    \A s \in subs :
      \A k \in 1..Len(Lines(files[cur].text)) :
        IsUseOf(Lines(files[cur].text)[k], s.action) => RewrittenLine(k, s)

(***************************************************************************)
(* Statements about the change set of a run.                               *)
(***************************************************************************)
\* what the resolver answers for a well-formed reference
ResolutionOf(action) ==
  _get_new_version(config, world, action_repository_of(action_location_of(action)),
                   current_version_of(action))

\* the resolution answers a token that differs from the reference
IsUpdate(action, res) ==
  /\ res.exc = ""
  /\ Truthy(res.new_version)
  /\ action # action_location_of(action) \o <<"@">> \o res.new_version

\* the references of a text that are updated: not ignored, well formed and
\* resolved to a different token
UpdatesIn(text) ==
  {action \in ReferencesOf(yaml_load(text)) \ config.ignore_actions :
     IF SplitRaises(action) THEN FALSE ELSE IsUpdate(action, ResolutionOf(action))}

\* the files the run goes through
ProcessedFiles ==
  {p \in (_get_workflow_paths_from_api \cup config.extra_workflow_locations)
            \cap DOMAIN files : files[p].exists}

\* the references updated in the run, as the files were when it started
RunUpdates == UNION {UpdatesIn(committed[p].text) : p \in ProcessedFiles}

\* the change line of an updated reference, given its resolution
LineFor(action, res) ==
  _generate_updated_item_markdown(config.update_version_with,
      action_repository_of(action_location_of(action)), res.data)

\* [repo, new_version] of an updated reference, given its resolution
TargetFor(action, res) ==
  <<action_repository_of(action_location_of(action)), res.new_version>>

\* every file of the run has been through _update_workflow and none raised
RunFinished == pc = "files" /\ todo = {} /\ exception = ""

LastAt(token) == CHOOSE i \in Positions(token, "@") :
                   \A j \in Positions(token, "@") : j <= i

\* everything before the last "@", and everything after it
RightmostLocation(token) == SubStr(token, 1, LastAt(token) - 1)
RightmostVersion(token) == SubStr(token, LastAt(token) + 1, Len(token))

\* the first two "/"-delimited segments of a location
LookupIdentity(location) ==
  LET segs == Split(location, "/")
  IN IF Len(segs) < 2 THEN location ELSE segs[1] \o <<"/">> \o segs[2]

\* the iteration recorded in `it` parsed `token` on its rightmost "@"
ParsedOnRightmostAt(it, token, location, version, known) ==
  /\ it.outcome # "malformed"
  /\ it.outcome # "raised" => <<LookupIdentity(location), version>> \in DOMAIN known
  /\ it.outcome \in {"updated", "same"} =>
       it.updated_action = location \o <<"@">> \o
                           known[<<LookupIdentity(location), version>>].new_version

(***************************************************************************)
(* C17.  An iteration over a token that holds at least one "@" splits it   *)
(* on the rightmost "@": the token is not reported as malformed, the       *)
(* resolution is asked for (first two segments of the location, version),  *)
(* and the rewritten token is the full location, "@" and the new version;  *)
(* a token with more than one "@" included.                                *)
(***************************************************************************)
C17_SplitOnRightmostAt ==
  [][(IterationStep /\ Positions(last'.action, "@") # {}) =>
       ParsedOnRightmostAt(last', last'.action, RightmostLocation(last'.action),
                           RightmostVersion(last'.action), cache')]_vars

(***************************************************************************)
(* Statements about malformed references.                                  *)
(***************************************************************************)
\* the token has no "@" separator
HasNoSeparator(token) == Positions(token, "@") = {}

\* the references of a text the loop goes through that can be split
WellFormedIn(text) ==
  {action \in ReferencesOf(yaml_load(text)) \ config.ignore_actions :
     ~SplitRaises(action)}

\* the step skips the reference: a notice names it, nothing is resolved, the
\* text and the change records stay, the loop goes on with the references left
SkipsReference(token) ==
  /\ Logged("notice", "unsupported-format", token) \in log'
  /\ calls' = calls
  /\ cache' = cache
  /\ updated_workflow_data' = updated_workflow_data
  /\ file_markdown' = file_markdown
  /\ actions' = actions \ {token}
  /\ todo' = todo
  /\ pc' = "actions"
  /\ exception' = ""

\* the lines of file p that were a reference to the token are as they were
UsesKept(p, token) ==
  \A k \in 1..Len(Lines(committed[p].text)) :
    IsUseOf(Lines(committed[p].text)[k], token) =>
      Lines(files[p].text)[k] = Lines(committed[p].text)[k]

(***************************************************************************)
(* C18.  An iteration over a reference without "@" logs a notice naming    *)
(* the token, asks for no resolution, leaves the text and the change       *)
(* records as they are and leaves the run going with the other references  *)
(* and files; the lines that hold the token are never rewritten; and a run *)
(* that ends without an exception has asked for the resolution of every    *)
(* well-formed reference of every file it went through.                    *)
(***************************************************************************)
C18_MalformedReferenceSkipped ==
  /\ [][(IterationStep /\ HasNoSeparator(last'.action)) =>
          SkipsReference(last'.action)]_vars
  /\ [](\A p \in ProcessedFiles :
          \A token \in ReferencesOf(yaml_load(committed[p].text)) :
            HasNoSeparator(token) => UsesKept(p, token))
  /\ [](RunFinished =>
          \A p \in ProcessedFiles :
            \A action \in WellFormedIn(committed[p].text) :
              PairOf(action) \in DOMAIN cache)

\* a reference without "@" was skipped in file a, another reference of that
\* file was rewritten, and the last iteration updated a reference of file b
C18_Witness ==
  /\ RunFinished
  /\ Logged("notice", "unsupported-format", RefB) \in log
  /\ RefB \in ReferencesOf(yaml_load(committed["a"].text))
  /\ UsesKept("a", RefB)
  /\ files["a"].text # committed["a"].text
  /\ last.path = "b"
  /\ last.outcome = "updated"

(***************************************************************************)
(* Statements about the commit-sha strategies.                             *)
(***************************************************************************)
ShaStrategies == {LATEST_RELEASE_COMMIT_SHA, DEFAULT_BRANCH_COMMIT_SHA}

\* the ReleaseTag resolution of a reference
TagSelected(action) ==
  NewVersionReleaseTag(action_repository_of(action_location_of(action)),
    _get_latest_version_release(config.release_types,
      ReleasesResponse(world, action_repository_of(action_location_of(action))),
      current_version_of(action)))

\* the first sub-step of a commit-sha strategy: whether it found something, and
\* the tag or branch it found
FirstSubStep(action, tag, repository) ==
  IF config.update_version_with = LATEST_RELEASE_COMMIT_SHA
  THEN [found |-> tag.exc = "" /\ Truthy(tag.new_version), ref |-> tag.new_version]
  ELSE [found |-> repository.status = 200 /\ Truthy(repository.body),
        ref |-> repository.body]

\* the commit lookup of a ref found a commit with its fields
CommitFound(response) ==
  /\ response.status = 200
  /\ Len(response.body) > 0
  /\ Missing \notin {response.body[1].sha, response.body[1].html_url,
                      response.body[1].date}

\* the metadata of the first sub-step is in the result
FirstMetadataIn(data, first, tag, action_repository) ==
  IF config.update_version_with = LATEST_RELEASE_COMMIT_SHA
  THEN /\ data.tag_name = first.ref
       /\ data.published_at = tag.data.published_at
       /\ data.html_url = tag.data.html_url
  ELSE /\ data.branch_name = first.ref
       /\ data.branch_url = action_repository \o <<"/">> \o first.ref

\* the iteration resolved the reference as the commit-sha strategies say:
\* `made` are the calls it made, `exc` the exception it left, `known` the
\* results kept after it
ShaResolved(action, first, tag, action_repository, made, exc, known) ==
  /\ exc = ""
  /\ PairOf(action) \in DOMAIN known
  /\ IF ~first.found
     THEN /\ known[PairOf(action)].new_version = Missing
          /\ known[PairOf(action)].data = EmptyDict
          /\ \A i \in 1..Len(made) : made[i].api # "commits"
     ELSE IF ~CommitFound(CommitsResponse(world, action_repository, first.ref))
     THEN /\ known[PairOf(action)].new_version = Missing
          /\ known[PairOf(action)].data = EmptyDict
     ELSE /\ known[PairOf(action)].new_version =
               CommitsResponse(world, action_repository, first.ref).body[1].sha
          /\ known[PairOf(action)].data.commit_sha =
               CommitsResponse(world, action_repository, first.ref).body[1].sha
          /\ known[PairOf(action)].data.commit_date =
               CommitsResponse(world, action_repository, first.ref).body[1].date
          /\ FirstMetadataIn(known[PairOf(action)].data, first, tag, action_repository)

\* the step resolves a well-formed reference under a commit-sha strategy
ShaResolutionStep ==
  /\ IterationStep
  /\ config.update_version_with \in ShaStrategies
  /\ ~SplitRaises(last'.action)
  /\ ~last'.cached

(***************************************************************************)
(* C19.  Under the commit-sha strategies a resolution answers the sha of   *)
(* the commit fetched for the tag selected by ReleaseTag resolution (or    *)
(* for the default branch), with the metadata of both sub-steps; when a    *)
(* sub-step fails or finds nothing it answers None with empty metadata,    *)
(* raising nothing, and after a failed first sub-step it makes no commit   *)
(* lookup.                                                                 *)
(***************************************************************************)
C19_CommitShaStrategies ==
  [][ShaResolutionStep =>
       ShaResolved(last'.action,
                   FirstSubStep(last'.action, TagSelected(last'.action),
                     RepoResponse(world,
                       action_repository_of(action_location_of(last'.action)))),
                   TagSelected(last'.action),
                   action_repository_of(action_location_of(last'.action)),
                   SubStr(calls', Len(calls) + 1, Len(calls')),
                   exception', cache')]_vars

(***************************************************************************)
(* Statements about files that cannot be read.                             *)
(***************************************************************************)
\* the path names no file
NotFoundFile(p) == ~(p \in DOMAIN files /\ files[p].exists)

\* the path names a file that is not YAML
NotYaml(p) == ~NotFoundFile(p) /\ yaml_load(files[p].text) = YAMLError

\* the step takes path p off the paths to go through
TakesUp(p) == pc = "files" /\ p \in todo /\ todo' = todo \ {p}

\* the step skips the file: it is logged, nothing is resolved or written, the
\* change records of the run are kept and the run goes on with the paths left
SkipsFile(p) ==
  /\ IF NotFoundFile(p) THEN Logged("warning", "not-found", <<p>>) \in log'
                        ELSE Logged("error", "yaml", <<p>>) \in log'
  /\ calls' = calls
  /\ cache' = cache
  /\ files' = files
  /\ markdown' = markdown
  /\ pc' = "files"
  /\ exception' = ""
  /\ exit_code' = exit_code

(***************************************************************************)
(* C20.  When the run comes to a path whose file is not found or is not    *)
(* YAML, it logs a warning or an error naming the path, resolves no        *)
(* reference, writes nothing, keeps the change records accumulated so far  *)
(* and goes on with the remaining paths; the loop over references is never *)
(* entered for such a file and its content stays what it was.              *)
(***************************************************************************)
C20_FileScopedIsolation ==
  /\ [][\A p \in todo :
          (TakesUp(p) /\ (NotFoundFile(p) \/ NotYaml(p))) => SkipsFile(p)]_vars
  /\ [](pc = "actions" => ~NotFoundFile(cur) /\ ~NotYaml(cur))
  /\ [](\A p \in DOMAIN files :
          yaml_load(committed[p].text) = YAMLError => files[p].text = committed[p].text)

\* the run went through a file that is not YAML and through a file it
\* updated: the error is logged, the change record and the update are there
C20_Witness ==
  /\ RunFinished
  /\ Logged("error", "yaml", <<"a">>) \in log
  /\ NotYaml("a")
  /\ files["a"].text = committed["a"].text
  /\ files["b"].text # committed["b"].text
  /\ markdown # {}

(***************************************************************************)
(* Statements about the end of a run.                                      *)
(***************************************************************************)
GitSteps == <<"create_new_git_branch", "git_commit_changes", "create_pull_request">>

IsGitStep(d) == \E i \in 1..Len(GitSteps) : GitSteps[i] = d

\* the branch, commit and pull-request steps made so far, in the order made
GitStepsOf(made) == SelectSeq(made, IsGitStep)

\* the step is the decision taken after the loop over the paths
DecisionStep == pc = "files" /\ todo = {} /\ pc' # "files"

(***************************************************************************)
(* C21.  The decision after the loop goes on to the branch, commit and     *)
(* pull-request steps exactly when git reports changes and pull-request    *)
(* creation is not suppressed, whatever the change set holds; with changes *)
(* and pull requests suppressed it emits the diff summary and ends with a  *)
(* non-zero exit; a branch, commit or pull-request step is made only after *)
(* such a decision, and the steps made are always a prefix of: create      *)
(* branch, commit/push, create pull request.                               *)
(***************************************************************************)
C21_DownstreamDecision ==
  /\ [][DecisionStep =>
          IF git_has_changes /\ ~config.skip_pull_request
          THEN pc' = "branch"
          ELSE /\ pc' = "done"
               /\ GitStepsOf(downstream') = <<>>
               /\ git_has_changes =>
                    /\ exit_code' # 0
                    /\ \E i \in 1..Len(downstream') : downstream'[i] = "git_diff_summary"]_vars
  /\ [][(pc' = "branch" /\ pc # "branch") => DecisionStep]_vars
  /\ [][Len(GitStepsOf(downstream')) > Len(GitStepsOf(downstream)) =>
          pc \in {"branch", "commit", "pull_request"}]_vars
  /\ [][(pc' = "commit" => pc \in {"branch", "commit"})
          /\ (pc' = "pull_request" => pc \in {"commit", "pull_request"})]_vars
  /\ [](/\ Len(GitStepsOf(downstream)) <= Len(GitSteps)
        /\ GitStepsOf(downstream) = SubStr(GitSteps, 1, Len(GitStepsOf(downstream))))
  /\ [](GitStepsOf(downstream) # <<>> => ~config.skip_pull_request)

\* a run that ended after the three steps, in their order
C21_Witness ==
  /\ pc = "done"
  /\ ~config.skip_pull_request
  /\ markdown # {}
  /\ GitStepsOf(downstream) = GitSteps

UpToDateNotice == Logged("notice", "up-to-date", <<>>)

(***************************************************************************)
(* C22.  When no reference of any file of the run produced an update, the  *)
(* run ends with exit code 0 and the up-to-date notice and makes no        *)
(* branch, commit or pull-request step; when at least one reference was    *)
(* updated, the notice is not emitted.                                     *)
(***************************************************************************)
C22_NoChangesSignal ==
  [][DecisionStep =>
       IF RunUpdates = {}
       THEN /\ UpToDateNotice \in log'
            /\ pc' = "done"
            /\ exit_code' = 0
            /\ GitStepsOf(downstream') = <<>>
       ELSE UpToDateNotice \notin log']_vars

(***************************************************************************)
(* Statements about the scan of the workflow paths.                        *)
(***************************************************************************)
\* the paths discovered and the extra workflow locations
RunPaths == _get_workflow_paths_from_api \cup config.extra_workflow_locations

\* the step that gets the workflow paths
PathsStep == pc = "start" /\ pc' # "start"

\* the run aborts with a failure before any file is read or any version looked up
AbortsBeforeScan ==
  /\ pc' = "done"
  /\ exit_code' # 0
  /\ files' = files
  /\ cache' = cache
  /\ \A i \in 1..Len(calls') : calls'[i].api = "workflows"

(***************************************************************************)
(* C23.  With no workflow path at all (none discovered, no extra location) *)
(* the run aborts with a non-zero exit before any file is read or any      *)
(* version is looked up; with at least one path the run takes up every     *)
(* path: nothing else ends the scan, so a run that has ended with paths to *)
(* go through has gone through all of them and raised nothing.             *)
(***************************************************************************)
C23_OnlyNoPathIsFatal ==
  /\ [][PathsStep => IF RunPaths = {} THEN AbortsBeforeScan
                     ELSE pc' = "files" /\ todo' = RunPaths]_vars
  /\ []((pc = "done" /\ RunPaths # {}) =>
          /\ todo = {}
          /\ actions = {}
          /\ exception = "")

(***************************************************************************)
(* Statements about the direction of an update.                            *)
(***************************************************************************)
\* the tags of the releases available for a repository (prereleases aside)
AvailableTags(action_repository) ==
  LET response == ReleasesResponse(world, action_repository)
  IN IF response.status # 200 THEN {}
     ELSE {response.body[i].tag_name :
             i \in {j \in 1..Len(response.body) : response.body[j].prerelease = "false"}}

\* no release available is newer than the version pinned
NothingNewer(action) ==
  \A tag \in AvailableTags(action_repository_of(action_location_of(action))) :
    ~VersionLess(parse(current_version_of(action)), parse(tag))

\* the substitution replaces a semantic version by a lower one
Downgrades(s) ==
  /\ IsVersion(parse(current_version_of(s.action)))
  /\ VersionLess(parse(current_version_of(s.updated_action)),
                 parse(current_version_of(s.action)))

(***************************************************************************)
(* C24.  Under the release-tag strategy no substitution made in a file     *)
(* replaces a semantic version by a release of a lower version, whatever   *)
(* the release types allowed; and a reference pinned to a semantic version *)
(* that no available release exceeds is not updated.                       *)
(***************************************************************************)
C24_NoDowngrade ==
  (pc \in {"actions", "files"} /\ config.update_version_with = LATEST_RELEASE_TAG) =>
    \A s \in subs :
      /\ ~Downgrades(s)
      /\ IsVersion(parse(current_version_of(s.action))) => ~NothingNewer(s.action)

(***************************************************************************)
(* Statements about the order of the substitutions in a file.              *)
(***************************************************************************)
\* the text after the iteration over one reference, given its resolution
SubstitutedWith(text, action, res) ==
  IF IsUpdate(action, res)
  THEN re_sub(action, action_location_of(action) \o <<"@">> \o res.new_version, text)
  ELSE text

\* the text after the iteration over one reference
Substituted(text, action) ==
  IF SplitRaises(action) THEN text
  ELSE SubstitutedWith(text, action, ResolutionOf(action))

\* the text after the iterations over the references of `left`, in one order
RECURSIVE InOneOrder(_, _)
InOneOrder(text, left) ==
  IF left = {} THEN text
  ELSE InOneOrder(Substituted(text, CHOOSE action \in left : TRUE),
                  left \ {CHOOSE action \in left : TRUE})

\* the references the loop over a text goes through
LoopOver(text) == ReferencesOf(yaml_load(text)) \ config.ignore_actions

\* line k of the file being updated is changed by the step
LineRewritten(k) ==
  /\ k <= Len(Lines(updated_workflow_data'))
  /\ Lines(updated_workflow_data')[k] # Lines(updated_workflow_data)[k]

(***************************************************************************)
(* C25.  Whatever the order in which the references of a file are gone     *)
(* through, the text the loop ends with is the same (the text one fixed    *)
(* order gives), and no line is rewritten a second time: a step changes    *)
(* only lines that still read as they did when the file was opened.        *)
(***************************************************************************)
C25_OrderIndependence ==
  /\ []((pc = "actions" /\ actions = {}) =>
          updated_workflow_data = InOneOrder(files[cur].text, LoopOver(files[cur].text)))
  /\ [][IterationStep =>
          \A k \in 1..Len(Lines(updated_workflow_data)) :
            LineRewritten(k) => LineUnchanged(k)]_vars

(***************************************************************************)
(* The scanner alone: set(_get_all_actions(tree)) applied to every bounded *)
(* tree of mappings, sequences and strings.                                *)
(***************************************************************************)
ScanKeys == {workflow_action_key, <<"U", "s", "e", "s">>, <<"w", "i", "t", "h">>}

ScanLeaves == {StrNode(RefT), StrNode(RefN)}

\* the trees nested at most n deep: a string, or a sequence or a mapping of
\* one or two entries, the first of them a tree one level less deep
RECURSIVE TreesOfDepth(_)
TreesOfDepth(n) ==
  IF n = 0 THEN ScanLeaves
  ELSE TreesOfDepth(n - 1)
       \cup {ListNode(<<t>>) : t \in TreesOfDepth(n - 1)}
       \cup {ListNode(<<t, l>>) : t \in TreesOfDepth(n - 1), l \in ScanLeaves}
       \cup {DictNode(<<<<k, t>>>>) : k \in ScanKeys, t \in TreesOfDepth(n - 1)}
       \cup {DictNode(<<<<kk[1], t>>, <<kk[2], l>>>>) :
               kk \in {x \in ScanKeys \X ScanKeys : x[1] # x[2]},
               t \in TreesOfDepth(n - 1), l \in ScanLeaves}

InitScan ==
  /\ query \in {[tree |-> t] : t \in TreesOfDepth(MaxDepth)}
  /\ answer = [done |-> FALSE, exc |-> "", result |-> {}, yielded |-> {}]
  /\ config = [update_version_with |-> LATEST_RELEASE_TAG,
               release_types |-> ALL_RELEASE_TYPES,
               ignore_actions |-> {}, extra_workflow_locations |-> {},
               skip_pull_request |-> FALSE]
  /\ world = [releases |-> [r \in {Repo} |-> NotFound],
              commits |-> [r \in {Repo} |-> "ok"],
              branch |-> [r \in {Repo} |-> "ok"],
              workflows |-> [status |-> 200, paths |-> {}]]
  /\ files = [p \in {} |-> 0] /\ committed = [p \in {} |-> 0]
  /\ run = 1
  /\ pc = "scan"
  /\ todo = {} /\ cur = "" /\ actions = {}
  /\ updated_workflow_data = <<>> /\ file_markdown = {} /\ subs = {}
  /\ markdown = {} /\ cache = NoCache /\ calls = <<>> /\ log = {}
  /\ downstream = <<>> /\ exit_code = -1 /\ exception = "" /\ last = NoLast
  /\ rewritten = {}

\* what the scan of a tree gave: the values yielded and the set made of them
ScanOf(yielded, made) ==
  [done |-> TRUE, exc |-> made.exc, result |-> made.val, yielded |-> yielded]

Scan ==
  /\ pc = "scan"
  /\ ~answer.done
  /\ answer' = ScanOf(_get_all_actions(query.tree), all_actions_of(query.tree))
  /\ UNCHANGED <<runVars, query>>

NextScan == Scan

SpecScan == InitScan /\ [][NextScan]_vars

\* every value stored under the key "uses" at any depth of the tree
RECURSIVE UsesValues(_)
UsesValues(node) ==
  IF node.type = "dict"
  THEN UNION {(IF node.items[i][1] = workflow_action_key
               THEN {node.items[i][2]} ELSE {})
              \cup UsesValues(node.items[i][2]) : i \in 1..Len(node.items)}
  ELSE IF node.type = "list"
  THEN UNION {UsesValues(node.items[i]) : i \in 1..Len(node.items)}
  ELSE {}

\* C15: for every tree of nested mappings and sequences the scanner's result
\* is exactly the set of the values stored under the key "uses" at any
\* depth: none is missed and no other value is returned.
C15_DiscoveryComplete ==
  answer.done =>
    /\ answer.exc = ""
    /\ answer.yielded = UsesValues(query.tree)

=============================================================================
